---- MODULE Spec2Model ----
(***************************************************************************)
(* Model of Source/hierarchy_builder.py (HierarchyNode, HierarchyBuilder,  *)
(* build_hierarchy_from_versions) with the helpers of Source/utils.py and  *)
(* the settings of Source/config.py it uses.                               *)
(*                                                                         *)
(* A text is a sequence of tokens.  A token is one lexical unit of the     *)
(* LaTeX body that the regular expressions of the code treat as a whole:   *)
(* a command with its braced argument, a \begin{..} or \end{..}, a word, a *)
(* whitespace character or a period.  Offsets are Python offsets counted   *)
(* in tokens (0-based, end exclusive).  Ids are strings; a Python dict is  *)
(* a sequence of entries in insertion order.                               *)
(***************************************************************************)
EXTENDS Integers, Sequences, FiniteSets, TLC

VARIABLES
    versions_data,      \* input: the (version, body) items of the dict, in order
    vi,                 \* number of items of versions_data already consumed
    pc,                 \* position in build_hierarchy_from_versions
    all_elements,       \* dict id -> payload
    all_hierarchies,    \* dict version -> (dict child id -> parent id)
    content_hash_to_id, \* dict content hash -> canonical id
    id_mapping,         \* dict version -> (dict original id -> canonical id)
    version_hierarchy,  \* dict child id -> parent id of the current version
    builder,            \* the HierarchyBuilder of the current version
    found_sections,     \* build_hierarchy: what extract_sections returned
    sections,           \* build_hierarchy: the retained sections
    references_start_pos, \* build_hierarchy: end-of-body boundary or None
    section_stack,      \* build_hierarchy: stack of open section node ids
    i,                  \* build_hierarchy: index of the section loop
    k,                  \* index of the node loops of build_hierarchy_from_versions
    built,              \* history: version -> node table the builder returned
    blocks              \* history: the calls of _process_content_block

vars == <<versions_data, vi, pc, all_elements, all_hierarchies,
          content_hash_to_id, id_mapping, version_hierarchy, builder,
          found_sections, sections, references_start_pos, section_stack, i, k, built, blocks>>

-----------------------------------------------------------------------------
(* Python values *)

\* None for an offset (offsets are >= 0)
None == -1

\* None or '' for a string-valued field such as parent_id
NoId == ""

Min(a, b) == IF a <= b THEN a ELSE b

\* s[a:b] for 0 <= a, with Python's clamping of the bounds
Slice(s, a, b) == SubSeq(s, a + 1, Min(b, Len(s)))

\* s[a:]
SliceFrom(s, a) == SubSeq(s, a + 1, Len(s))

RECURSIVE Flatten(_)
\* concatenation of a sequence of sequences
Flatten(ss) == IF ss = <<>> THEN <<>> ELSE Head(ss) \o Flatten(Tail(ss))

RECURSIVE JoinStr(_)
\* ''.join(cs) for a sequence of strings
JoinStr(cs) == IF cs = <<>> THEN "" ELSE Head(cs) \o JoinStr(Tail(cs))

\* dict: a sequence of entries [key, val] in insertion order
DictHas(d, key) == \E n \in 1..Len(d) : d[n].key = key

DictGet(d, key) == d[CHOOSE n \in 1..Len(d) : d[n].key = key].val

\* d.get(key, default)
DictGetOr(d, key, default) == IF DictHas(d, key) THEN DictGet(d, key) ELSE default

\* d[key] = val : an existing key keeps its place, a new key goes last
DictPut(d, key, val) ==
    IF DictHas(d, key)
    THEN [n \in 1..Len(d) |-> IF d[n].key = key THEN [key |-> key, val |-> val] ELSE d[n]]
    ELSE Append(d, [key |-> key, val |-> val])

DictKeys(d) == {d[n].key : n \in 1..Len(d)}

DictVals(d) == {d[n].val : n \in 1..Len(d)}

-----------------------------------------------------------------------------
(* Tokens *)

Tok(kind, name, star, arg) == [k |-> kind, name |-> name, star |-> star, arg |-> arg]

\* a word, given by its characters
Word(chars) == Tok("word", "", FALSE, chars)

SP == Tok("ws", " ", FALSE, <<>>)

NL == Tok("ws", "\n", FALSE, <<>>)

\* U+00A0, a whitespace character that NFKC turns into a space
NBSP == Tok("ws", "nbsp", FALSE, <<>>)

DOT == Tok("punct", ".", FALSE, <<>>)

\* \name{arg} or \name*{arg}; arg is a text
Command(name, star, arg) == Tok("cmd", name, star, arg)

\* \begin{name} or \begin{name*}
Begin(name, star) == Tok("begin", name, star, <<>>)

\* \end{name} or \end{name*}
End(name, star) == Tok("end", name, star, <<>>)

UpperChars == {"A", "B", "C", "D", "E", "F", "G", "H", "I", "J", "K", "L", "M",
               "N", "O", "P", "Q", "R", "S", "T", "U", "V", "W", "X", "Y", "Z"}

LowerOf == [c \in UpperChars |->
    CASE c = "A" -> "a" [] c = "B" -> "b" [] c = "C" -> "c" [] c = "D" -> "d"
      [] c = "E" -> "e" [] c = "F" -> "f" [] c = "G" -> "g" [] c = "H" -> "h"
      [] c = "I" -> "i" [] c = "J" -> "j" [] c = "K" -> "k" [] c = "L" -> "l"
      [] c = "M" -> "m" [] c = "N" -> "n" [] c = "O" -> "o" [] c = "P" -> "p"
      [] c = "Q" -> "q" [] c = "R" -> "r" [] c = "S" -> "s" [] c = "T" -> "t"
      [] c = "U" -> "u" [] c = "V" -> "v" [] c = "W" -> "w" [] c = "X" -> "x"
      [] c = "Y" -> "y" [] c = "Z" -> "z"]

RECURSIVE Chars(_)
\* the characters of a text, as the string the code holds
Chars(text) ==
    IF text = <<>> THEN <<>>
    ELSE LET t == Head(text)
             starS == IF t.star THEN <<"*">> ELSE <<>>
             own == CASE t.k = "word" -> t.arg
                      [] t.k = "ws" -> <<t.name>>
                      [] t.k = "punct" -> <<t.name>>
                      [] t.k = "begin" -> <<"\\begin{", t.name>> \o starS \o <<"}">>
                      [] t.k = "end" -> <<"\\end{", t.name>> \o starS \o <<"}">>
                      [] t.k = "cmd" ->
                            <<"\\", t.name>> \o starS
                            \o (IF t.arg = <<>> THEN <<>>
                                ELSE <<"{">> \o Chars(t.arg) \o <<"}">>)
         IN own \o Chars(Tail(text))

\* the text as a string
Render(text) == JoinStr(Chars(text))

WsChars == {" ", "\n", "nbsp"}

RECURSIVE LStrip(_, _)
LStrip(s, W) == IF s # <<>> /\ Head(s) \in W THEN LStrip(Tail(s), W) ELSE s

RECURSIVE RStrip(_, _)
RStrip(s, W) ==
    IF s # <<>> /\ s[Len(s)] \in W THEN RStrip(SubSeq(s, 1, Len(s) - 1), W) ELSE s

\* str.strip() on a sequence whose whitespace elements are those in W
StripIn(s, W) == RStrip(LStrip(s, W), W)

WsToks == {SP, NL, NBSP}

\* str.strip() on a text
Strip(text) == StripIn(text, WsToks)

\* str.lower() on characters
Lower(cs) == [n \in 1..Len(cs) |-> IF cs[n] \in UpperChars THEN LowerOf[cs[n]] ELSE cs[n]]

\* kw in cs
Contains(cs, kw) ==
    \E n \in 1..(Len(cs) - Len(kw) + 1) : SubSeq(cs, n, n + Len(kw) - 1) = kw

-----------------------------------------------------------------------------
(* config.py *)

\* keywords as characters
EXCLUDE_SECTIONS ==
    { <<"r", "e", "f", "e", "r", "e", "n", "c", "e", "s">>,
      <<"b", "i", "b", "l", "i", "o", "g", "r", "a", "p", "h", "y">> }

INCLUDE_UNNUMBERED_SECTIONS ==
    { <<"a", "c", "k", "n", "o", "w", "l", "e", "d", "g", "e", "m", "e", "n", "t", "s">>,
      <<"a", "c", "k", "n", "o", "w", "l", "e", "d", "g", "m", "e", "n", "t">>,
      <<"a", "p", "p", "e", "n", "d", "i", "x">>,
      <<"a", "p", "p", "e", "n", "d", "i", "c", "e", "s">> }

\* an environment name is <<name without star, starred>>
MATH_BLOCK_ENVS ==
    { <<"equation", FALSE>>, <<"equation", TRUE>>, <<"align", FALSE>>, <<"align", TRUE>>,
      <<"gather", FALSE>>, <<"gather", TRUE>>, <<"multline", FALSE>>, <<"multline", TRUE>>,
      <<"eqnarray", FALSE>>, <<"eqnarray", TRUE>>, <<"displaymath", FALSE>> }

FIGURE_ENVS ==
    { <<"figure", FALSE>>, <<"figure", TRUE>>, <<"table", FALSE>>, <<"table", TRUE>> }

LIST_ENVS == { <<"itemize", FALSE>>, <<"enumerate", FALSE>>, <<"description", FALSE>> }

-----------------------------------------------------------------------------
(* utils.py *)

\* unicodedata.normalize('NFKC', .) on the characters the model has: the
\* no-break space becomes a space, the ligature fi becomes f, i
NFKCChar(c) ==
    CASE c = "nbsp" -> <<" ">>
      [] c = "fi-ligature" -> <<"f", "i">>
      [] OTHER -> <<c>>

NFKC(cs) == Flatten([n \in 1..Len(cs) |-> NFKCChar(cs[n])])

RECURSIVE CollapseWs(_)
\* re.sub(r'\s+', ' ', .)
CollapseWs(cs) ==
    IF cs = <<>> THEN <<>>
    ELSE IF Head(cs) \in WsChars
         THEN <<" ">> \o CollapseWs(LStrip(cs, WsChars))
         ELSE <<Head(cs)>> \o CollapseWs(Tail(cs))

normalize_text(cs) == StripIn(CollapseWs(NFKC(cs)), WsChars)

\* hashlib.sha256(.).hexdigest()[:16]: the digest of a string is modelled by
\* the string itself (distinct normalized strings have distinct digests)
Sha256Prefix(str) == <<str>>

compute_content_hash(content) == Sha256Prefix(JoinStr(normalize_text(Chars(content))))

\* content_hash of a node whose content is empty
NoHash == <<>>

\* generate_element_id without the index
generate_element_idNoIndex(pub, version, element_type, index, parent_id) ==
    IF parent_id # NoId
    THEN parent_id \o "-" \o element_type
    ELSE pub \o "-" \o version \o "-" \o element_type

generate_element_id(pub, version, element_type, index, parent_id) ==
    IF parent_id # NoId
    THEN parent_id \o "-" \o element_type \o "-" \o ToString(index)
    ELSE pub \o "-" \o version \o "-" \o element_type \o "-" \o ToString(index)

-----------------------------------------------------------------------------
(* HierarchyNode *)

LeafTypes == {"sentence", "equation", "figure", "item"}

ElementTypes == {"section", "paragraph", "sentence", "equation", "figure", "list", "item"}

\* HierarchyNode.__init__ ; children holds the ids of the child nodes
HierarchyNode(node_id, node_type, content, title, level, parent_id) ==
    [id |-> node_id, type |-> node_type, content |-> content, title |-> title,
     level |-> level, parent_id |-> parent_id, children |-> <<>>,
     content_hash |-> IF content # <<>> THEN compute_content_hash(content) ELSE NoHash]

\* the node table all_nodes is a dict id -> node; Node(b, id) is all_nodes[id]
Node(nodes, id) == DictGet(nodes, id)

\* add_child without the assignment child.parent_id = self.id
add_childKeepParent(nodes, parent_id, child_id) ==
    [n \in 1..Len(nodes) |->
        [key |-> nodes[n].key,
         val |-> IF nodes[n].val.id = parent_id
                 THEN [nodes[n].val EXCEPT !.children = Append(@, child_id)]
                 ELSE nodes[n].val]]

\* parent.add_child(child) on the nodes of a table
add_child(nodes, parent_id, child_id) ==
    [n \in 1..Len(nodes) |->
        LET nd == nodes[n].val
            nd1 == IF nd.id = parent_id
                   THEN [nd EXCEPT !.children = Append(@, child_id)] ELSE nd
            nd2 == IF nd.id = child_id
                   THEN [nd1 EXCEPT !.parent_id = parent_id] ELSE nd1
        IN [key |-> nodes[n].key, val |-> nd2]]

-----------------------------------------------------------------------------
(* HierarchyBuilder *)

\* HierarchyBuilder.__init__
NewBuilder(pub, version) ==
    [pub_id |-> pub, version |-> version,
     node_counter |-> [t \in ElementTypes |-> 0],
     all_nodes |-> <<>>]

\* get_next_id that leaves the version out of the id
get_next_idNoVersion(b, element_type, parent_id) ==
    generate_element_id(b.pub_id, "", element_type,
                        b.node_counter[element_type] + 1, parent_id)

\* the id _get_next_id returns
get_next_id(b, element_type, parent_id) ==
    generate_element_id(b.pub_id, b.version, element_type,
                        b.node_counter[element_type] + 1, parent_id)

\* _get_next_id's effect on the builder
CountId(b, element_type) ==
    [b EXCEPT !.node_counter[element_type] = @ + 1]

\* id = self._get_next_id(type, parent_arg); node = HierarchyNode(..);
\* self.all_nodes[id] = node; parent.add_child(node)
NewChild(b, node_type, parent_arg, content, title, level, parent_id) ==
    LET nid == get_next_id(b, node_type, parent_arg)
        b1 == CountId(b, node_type)
        node == HierarchyNode(nid, node_type, content, title, level, parent_arg)
        nodes1 == DictPut(b1.all_nodes, nid, node)
    IN [b1 EXCEPT !.all_nodes = add_child(nodes1, parent_id, nid)]

\* section_levels that counts the depth from 1
section_levelsFromOne ==
    [c \in {"chapter", "section", "subsection", "subsubsection", "paragraph",
            "subparagraph"} |->
        CASE c = "chapter" -> 1 [] c = "section" -> 2 [] c = "subsection" -> 3
          [] c = "subsubsection" -> 4 [] c = "paragraph" -> 5
          [] c = "subparagraph" -> 6]

section_levels ==
    [c \in {"chapter", "section", "subsection", "subsubsection", "paragraph",
            "subparagraph"} |->
        CASE c = "chapter" -> 0 [] c = "section" -> 1 [] c = "subsection" -> 2
          [] c = "subsubsection" -> 3 [] c = "paragraph" -> 4
          [] c = "subparagraph" -> 5]

\* the pattern of extract_sections matches the token t
SectionMatch(t) == t.k = "cmd" /\ t.name \in DOMAIN section_levels /\ t.arg # <<>>

\* TitleLower without lower()
TitleLowerKeepCase(title) == StripIn(Chars(title), WsChars)

\* title_lower
TitleLower(title) == StripIn(Lower(Chars(title)), WsChars)

IsReferencesTitle(title) ==
    \E excl \in EXCLUDE_SECTIONS : Contains(TitleLower(title), excl)

IncludeUnnumberedTitle(title) ==
    \E incl \in INCLUDE_UNNUMBERED_SECTIONS : Contains(TitleLower(title), incl)

\* the dict extract_sections appends for the match at index n (1-based)
SectionDict(t, n, is_refs) ==
    [command |-> t.name, title |-> t.arg, level |-> section_levels[t.name],
     position |-> n - 1, end |-> n, is_unnumbered |-> t.star,
     include_unnumbered |-> IncludeUnnumberedTitle(t.arg),
     is_references |-> is_refs]

RECURSIVE ExtractSectionsFrom(_, _)
ExtractSectionsFrom(content, n) ==
    IF n > Len(content) THEN <<>>
    ELSE LET t == content[n]
             rest == ExtractSectionsFrom(content, n + 1)
         IN IF ~SectionMatch(t) THEN rest
            ELSE IF IsReferencesTitle(t.arg)
                 THEN <<SectionDict(t, n, TRUE)>> \o rest
                 ELSE IF t.star /\ ~IncludeUnnumberedTitle(t.arg)
                      THEN rest
                      ELSE <<SectionDict(t, n, FALSE)>> \o rest

extract_sections(content) == ExtractSectionsFrom(content, 1)

\* env_type of extract_environments
EnvType(env_name) ==
    IF env_name \in MATH_BLOCK_ENVS \/ <<env_name[1], FALSE>> \in MATH_BLOCK_ENVS
    THEN "equation"
    ELSE IF env_name \in FIGURE_ENVS \/ <<env_name[1], FALSE>> \in FIGURE_ENVS
         THEN "figure"
         ELSE IF env_name \in LIST_ENVS THEN "list" ELSE "environment"

\* ClosersOf that takes an \end of any name as a closer
ClosersOfAnyName(content, n) ==
    {m \in (n + 1)..Len(content) : content[m].k = "end"}

\* the indices after n of the \end{..} that close the \begin{..} at index n
ClosersOf(content, n) ==
    {m \in (n + 1)..Len(content) :
        content[m].k = "end" /\ content[m].name = content[n].name
        /\ content[m].star = content[n].star}

\* the first \end of the same name: .*? is not greedy
FirstCloser(content, n) ==
    CHOOSE m \in ClosersOf(content, n) : \A m2 \in ClosersOf(content, n) : m <= m2

RECURSIVE ExtractEnvironmentsFrom(_, _)
\* re.finditer: the matches from left to right, each search starting where
\* the previous match ended
ExtractEnvironmentsFrom(content, n) ==
    IF n > Len(content) THEN <<>>
    ELSE IF content[n].k = "begin" /\ ClosersOf(content, n) # {}
         THEN LET m == FirstCloser(content, n)
                  env_name == <<content[n].name, content[n].star>>
              IN << [env_name |-> env_name, env_type |-> EnvType(env_name),
                     content |-> SubSeq(content, n + 1, m - 1),
                     full_content |-> SubSeq(content, n, m),
                     position |-> n - 1, end |-> m] >>
                 \o ExtractEnvironmentsFrom(content, m + 1)
         ELSE ExtractEnvironmentsFrom(content, n + 1)

extract_environments(content) == ExtractEnvironmentsFrom(content, 1)

RECURSIVE WsRun(_, _)
\* the number of whitespace tokens from index n on
WsRun(text, n) ==
    IF n <= Len(text) /\ text[n] \in WsToks THEN 1 + WsRun(text, n + 1) ELSE 0

RECURSIVE NlRun(_, _)
\* the number of newlines from index n on
NlRun(text, n) ==
    IF n <= Len(text) /\ text[n] = NL THEN 1 + NlRun(text, n + 1) ELSE 0

IsItemCmd(t) == t.k = "cmd" /\ t.name = "item"

StartsUpper(t) == t.k = "word" /\ t.arg # <<>> /\ t.arg[1] \in UpperChars

\* the length of the match, at index n, of the pattern re.split is called
\* with; 0 when it does not match there
SepLen(pattern, text, n) ==
    CASE pattern = "\\item\\s*" ->
            IF IsItemCmd(text[n]) THEN 1 + WsRun(text, n + 1) ELSE 0
      [] pattern = "\\n\\n+" ->
            IF NlRun(text, n) >= 2 THEN NlRun(text, n) ELSE 0
      [] pattern = "\\.\\s+(?=[A-Z])" ->
            LET w == WsRun(text, n + 1)
            IN IF text[n] = DOT /\ w >= 1 /\ n + 1 + w <= Len(text)
                  /\ StartsUpper(text[n + 1 + w])
               THEN 1 + w ELSE 0

RECURSIVE ReSplitFrom(_, _, _, _)
ReSplitFrom(pattern, text, n, cur) ==
    IF n > Len(text) THEN <<cur>>
    ELSE LET l == SepLen(pattern, text, n)
         IN IF l > 0
            THEN <<cur>> \o ReSplitFrom(pattern, text, n + l, <<>>)
            ELSE ReSplitFrom(pattern, text, n + 1, Append(cur, text[n]))

\* re.split(pattern, text)
ReSplit(pattern, text) == ReSplitFrom(pattern, text, 1, <<>>)

\* the non-empty elements of ss after strip()
StrippedNonEmpty(ss) ==
    SelectSeq([n \in 1..Len(ss) |-> Strip(ss[n])], LAMBDA x : x # <<>>)

\* extract_list_items that takes the part before the first \item as an item
extract_list_itemsAllParts(list_content) ==
    StrippedNonEmpty(ReSplit("\\item\\s*", list_content))

extract_list_items(list_content) ==
    StrippedNonEmpty(Tail(ReSplit("\\item\\s*", list_content)))

\* FinalSentence that does not add the period back
FinalSentenceNoPeriod(sent) == Strip(sent)

\* one sentence of split_into_sentences, for a part with sent.strip() not empty
FinalSentence(sent) ==
    LET st == Strip(sent)
    IN IF st[Len(st)] # DOT THEN Append(st, DOT) ELSE st

split_into_sentences(text) ==
    LET kept == StrippedNonEmpty(ReSplit("\\.\\s+(?=[A-Z])", text))
    IN [n \in 1..Len(kept) |-> FinalSentence(kept[n])]


RECURSIVE InsertByPosition(_, _)
InsertByPosition(sorted, e) ==
    IF sorted = <<>> THEN <<e>>
    ELSE IF e.position < Head(sorted).position THEN <<e>> \o sorted
         ELSE <<Head(sorted)>> \o InsertByPosition(Tail(sorted), e)

RECURSIVE SortByPosition(_)
\* envs.sort(key=lambda e: e['position']) : a stable sort
SortByPosition(envs) ==
    IF envs = <<>> THEN <<>>
    ELSE InsertByPosition(SortByPosition(SubSeq(envs, 1, Len(envs) - 1)), envs[Len(envs)])

\* caption of a figure environment: the first \caption{..}
Caption(env_content) ==
    LET caps == SelectSeq(env_content,
                          LAMBDA t : t.k = "cmd" /\ t.name = "caption" /\ t.arg # <<>>)
    IN IF caps # <<>> THEN caps[1].arg ELSE <<>>

RECURSIVE AddItems(_, _, _, _)
\* the loop over items of a list environment
AddItems(b, items, n, list_id) ==
    IF n > Len(items) THEN b
    ELSE AddItems(NewChild(b, "item", list_id, items[n], <<>>,
                           Node(b.all_nodes, list_id).level + 1, list_id),
                  items, n + 1, list_id)

\* the body of the loop "for env in envs" of _process_content_block
ProcessEnv(b, env, parent_id) ==
    LET level == Node(b.all_nodes, parent_id).level + 1
    IN CASE env.env_type = "equation" ->
              NewChild(b, "equation", parent_id, env.full_content, <<>>, level, parent_id)
         [] env.env_type = "figure" ->
              NewChild(b, "figure", parent_id, env.full_content, Caption(env.content),
                       level, parent_id)
         [] env.env_type = "list" ->
              LET list_id == get_next_id(b, "list", parent_id)
                  b1 == NewChild(b, "list", parent_id, env.full_content, <<>>, level,
                                 parent_id)
              IN AddItems(b1, extract_list_items(env.content), 1, list_id)
         [] OTHER -> b

RECURSIVE ProcessEnvs(_, _, _, _)
ProcessEnvs(b, envs, n, parent_id) ==
    IF n > Len(envs) THEN b
    ELSE ProcessEnvs(ProcessEnv(b, envs[n], parent_id), envs, n + 1, parent_id)

\* PlainTextParts that leaves the environments in the text
PlainTextPartsWhole(content, envs, n, last_end) ==
    IF content = <<>> THEN <<>> ELSE <<content>>

RECURSIVE PlainTextParts(_, _, _, _)
\* plain_text_parts: the text outside the environments
PlainTextParts(content, envs, n, last_end) ==
    IF n > Len(envs)
    THEN IF last_end < Len(content) THEN <<SliceFrom(content, last_end)>> ELSE <<>>
    ELSE (IF envs[n].position > last_end
          THEN <<Slice(content, last_end, envs[n].position)>> ELSE <<>>)
         \o PlainTextParts(content, envs, n + 1, envs[n].end)

RECURSIVE JoinWithSpace(_)
\* ' '.join(parts)
JoinWithSpace(parts) ==
    IF parts = <<>> THEN <<>>
    ELSE IF Len(parts) = 1 THEN parts[1]
         ELSE parts[1] \o <<SP>> \o JoinWithSpace(Tail(parts))

RECURSIVE AddSentencesUnderParent(_, _, _, _)
\* AddSentences that hangs the sentences next to their paragraph
AddSentencesUnderParent(b, sentences, n, para_id) ==
    IF n > Len(sentences) THEN b
    ELSE AddSentencesUnderParent(
            IF Strip(sentences[n]) # <<>>
            THEN NewChild(b, "sentence", Node(b.all_nodes, para_id).parent_id,
                          sentences[n], <<>>, Node(b.all_nodes, para_id).level + 1,
                          Node(b.all_nodes, para_id).parent_id)
            ELSE b,
            sentences, n + 1, para_id)

RECURSIVE AddSentences(_, _, _, _)
AddSentences(b, sentences, n, para_id) ==
    IF n > Len(sentences) THEN b
    ELSE AddSentences(
            IF Strip(sentences[n]) # <<>>
            THEN NewChild(b, "sentence", para_id, sentences[n], <<>>,
                          Node(b.all_nodes, para_id).level + 1, para_id)
            ELSE b,
            sentences, n + 1, para_id)

RECURSIVE AddParagraphs(_, _, _, _)
\* the loop "for para_text in paragraphs"
AddParagraphs(b, paragraphs, n, parent_id) ==
    IF n > Len(paragraphs) THEN b
    ELSE LET para_text == Strip(paragraphs[n])
         IN IF para_text = <<>> THEN AddParagraphs(b, paragraphs, n + 1, parent_id)
            ELSE LET para_id == get_next_id(b, "paragraph", parent_id)
                     b1 == NewChild(b, "paragraph", parent_id, para_text, <<>>,
                                    Node(b.all_nodes, parent_id).level + 1, parent_id)
                     b2 == AddSentences(b1, split_into_sentences(para_text), 1, para_id)
                 IN AddParagraphs(b2, paragraphs, n + 1, parent_id)

\* _process_content_block(content, parent_node, start_pos, end_pos)
process_content_block(b, content, parent_id) ==
    LET envs == SortByPosition(extract_environments(content))
        b1 == ProcessEnvs(b, envs, 1, parent_id)
        plain_text == JoinWithSpace(PlainTextParts(content, envs, 1, 0))
    IN IF Strip(plain_text) # <<>>
       THEN AddParagraphs(b1, ReSplit("\\n\\n+", plain_text), 1, parent_id)
       ELSE b1

-----------------------------------------------------------------------------
(* build_hierarchy *)

\* the publication the versions belong to
pub_id == "2310-15395"

RootId(pub, version) == pub \o "-" \o version \o "-document"

\* the root node, with title f'{pub_id} {version}'
RootNode(pub, version) ==
    HierarchyNode(RootId(pub, version), "document", <<>>,
                  <<Word(<<pub>>), SP, Word(<<version>>)>>, 0, NoId)

RECURSIVE FilteredSections(_)
\* filtered_sections: the sections before the first references heading
FilteredSections(secs) ==
    IF secs = <<>> \/ Head(secs).is_references THEN <<>>
    ELSE <<Head(secs)>> \o FilteredSections(Tail(secs))

\* references_start_pos after the loop over the sections
SectionReferencesPos(secs) ==
    IF \E n \in 1..Len(secs) : secs[n].is_references
    THEN secs[Len(FilteredSections(secs)) + 1].position
    ELSE None

\* the pattern \\(bibliography|bibliographystyle|begin\{thebibliography\})
BiblioMatch(t) ==
    \/ t.k = "cmd" /\ t.name \in {"bibliography", "bibliographystyle"}
    \/ t.k = "begin" /\ t.name = "thebibliography" /\ ~t.star

\* biblio_match.start(), or None when re.search finds nothing
BiblioPos(body) ==
    IF \E n \in 1..Len(body) : BiblioMatch(body[n])
    THEN (CHOOSE n \in 1..Len(body) :
            BiblioMatch(body[n]) /\ \A m \in 1..(n - 1) : ~BiblioMatch(body[m])) - 1
    ELSE None

\* references_start_pos after both detections
ReferencesStartPos(body) ==
    LET sec_pos == SectionReferencesPos(extract_sections(body))
        biblio_pos == BiblioPos(body)
    IN IF biblio_pos # None /\ (sec_pos = None \/ biblio_pos < sec_pos)
       THEN biblio_pos ELSE sec_pos

\* "x if references_start_pos else y": None and 0 are both false
Truthy(pos) == pos # None /\ pos # 0

\* PopStack that leaves the stack as it is
PopStackKeep(stack, nodes, level) == stack

RECURSIVE PopStackStrict(_, _, _)
\* PopStack that keeps a section of the same level on the stack
PopStackStrict(stack, nodes, level) ==
    IF Len(stack) > 1 /\ Node(nodes, stack[Len(stack)]).level > level
    THEN PopStackStrict(SubSeq(stack, 1, Len(stack) - 1), nodes, level)
    ELSE stack

RECURSIVE PopStack(_, _, _)
\* while len(section_stack) > 1 and section_stack[-1].level >= level: pop
PopStack(stack, nodes, level) ==
    IF Len(stack) > 1 /\ Node(nodes, stack[Len(stack)]).level >= level
    THEN PopStack(SubSeq(stack, 1, Len(stack) - 1), nodes, level)
    ELSE stack


-----------------------------------------------------------------------------
(* build_hierarchy_from_versions: the node loops *)

\* IsDedupLeaf without the test of the node type
IsDedupLeafAnyType(node) == node.content # <<>> /\ node.content_hash # NoHash

\* the test of the deduplication branch
IsDedupLeaf(node) ==
    node.content # <<>> /\ node.content_hash # NoHash /\ node.type \in LeafTypes

\* CanonicalId without the reuse of a registered id
CanonicalIdNoReuse(hash_to_id, node) == node.id

\* canonical_id after the branches of the first node loop
CanonicalId(hash_to_id, node) ==
    IF IsDedupLeaf(node) /\ DictHas(hash_to_id, node.content_hash)
    THEN DictGet(hash_to_id, node.content_hash)
    ELSE node.id

\* StoresElement without the test for a registered fingerprint
StoresElementAlways(hash_to_id, node) == TRUE

\* the node gets an entry of all_elements under its own id
StoresElement(hash_to_id, node) ==
    ~(IsDedupLeaf(node) /\ DictHas(hash_to_id, node.content_hash))

\* ElementPayload that prefers the title of a node to its content
ElementPayloadTitleFirst(node) ==
    IF node.title # <<>> THEN node.title ELSE node.content

\* the payload all_elements gets for the node
ElementPayload(node) ==
    IF IsDedupLeaf(node) THEN node.content
    ELSE IF node.type \in LeafTypes
         THEN (IF node.content # <<>> THEN node.content ELSE node.title)
         ELSE IF node.type \in {"paragraph", "list"}
              THEN (IF node.content # <<>> THEN node.content ELSE <<>>)
              ELSE (IF node.title # <<>> THEN node.title ELSE node.content)

\* ParentCanonical that takes the canonical id of the node itself
ParentCanonicalOfNode(mapping, node) == DictGetOr(mapping, node.id, node.id)

\* parent_canonical of the second node loop
ParentCanonical(mapping, node) == DictGetOr(mapping, node.parent_id, node.parent_id)

\* ChildCanonical without the substitution of the canonical id
ChildCanonicalRaw(mapping, node_id) == node_id

\* child_canonical of the second node loop
ChildCanonical(mapping, node_id) == DictGetOr(mapping, node_id, node_id)

-----------------------------------------------------------------------------
(* The state machine *)

\* the item of versions_data the loop is at
Version == versions_data[vi + 1].key

\* data.get('body', '')
Body == versions_data[vi + 1].val.body

NoBuilder == NewBuilder(pub_id, "")

InitWith(inputs) ==
    /\ versions_data \in inputs
    /\ vi = 0
    /\ pc = "versions"
    /\ all_elements = <<>>
    /\ all_hierarchies = <<>>
    /\ content_hash_to_id = <<>>
    /\ id_mapping = <<>>
    /\ version_hierarchy = <<>>
    /\ builder = NoBuilder
    /\ found_sections = <<>>
    /\ sections = <<>>
    /\ references_start_pos = None
    /\ section_stack = <<>>
    /\ i = 0
    /\ k = 0
    /\ built = <<>>
    /\ blocks = <<>>

\* SkipEmptyVersion that stores an empty hierarchy map for the version
SkipEmptyVersionStoresMap ==
    /\ pc = "versions"
    /\ vi < Len(versions_data)
    /\ Body = <<>>
    /\ vi' = vi + 1
    /\ all_hierarchies' = DictPut(all_hierarchies, Version, <<>>)
    /\ UNCHANGED <<versions_data, pc, all_elements,
                   content_hash_to_id, id_mapping, version_hierarchy, builder,
                   found_sections, sections, references_start_pos, section_stack,
                   i, k, built, blocks>>

\* for version, data in versions_data.items(): ... if not body_content: continue
SkipEmptyVersion ==
    /\ pc = "versions"
    /\ vi < Len(versions_data)
    /\ Body = <<>>
    /\ vi' = vi + 1
    /\ UNCHANGED <<versions_data, pc, all_elements, all_hierarchies,
                   content_hash_to_id, id_mapping, version_hierarchy, builder,
                   found_sections, sections, references_start_pos, section_stack,
                   i, k, built, blocks>>

\* builder = HierarchyBuilder(pub_id, version); build_hierarchy up to the
\* test "if not sections"
BeginBuild ==
    /\ pc = "versions"
    /\ vi < Len(versions_data)
    /\ Body # <<>>
    /\ LET root == RootNode(pub_id, Version)
           b == NewBuilder(pub_id, Version)
           secs == extract_sections(Body)
       IN /\ builder' = [b EXCEPT !.all_nodes = DictPut(@, root.id, root)]
          /\ found_sections' = secs
          /\ sections' = FilteredSections(secs)
          /\ references_start_pos' = ReferencesStartPos(Body)
          /\ section_stack' = IF FilteredSections(secs) = <<>> THEN <<>> ELSE <<root.id>>
          /\ pc' = IF FilteredSections(secs) = <<>> THEN "block" ELSE "sections"
    /\ i' = 0
    /\ UNCHANGED <<versions_data, vi, all_elements, all_hierarchies,
                   content_hash_to_id, id_mapping, version_hierarchy, k, built, blocks>>

\* if not sections: ... self._process_content_block(body_content[:end_pos], root, 0, end_pos)
NoSectionsBlock ==
    /\ pc = "block"
    /\ LET end_pos == IF Truthy(references_start_pos)
                      THEN references_start_pos ELSE Len(Body)
           content == Slice(Body, 0, end_pos)
           root_id == RootId(pub_id, Version)
       IN /\ builder' = process_content_block(builder, content, root_id)
          /\ blocks' = Append(blocks, [version |-> Version, parent_id |-> root_id,
                                       content |-> content, start_pos |-> 0,
                                       end_pos |-> end_pos])
    /\ pc' = "built"
    /\ UNCHANGED <<versions_data, vi, all_elements, all_hierarchies,
                   content_hash_to_id, id_mapping, version_hierarchy,
                   found_sections, sections, references_start_pos, section_stack,
                   i, k, built>>

\* one iteration of "for i, section in enumerate(sections)"
SectionStep ==
    /\ pc = "sections"
    /\ i < Len(sections)
    /\ LET section == sections[i + 1]
           section_id == get_next_id(builder, "section", NoId)
           popped == PopStack(section_stack, builder.all_nodes, section.level)
           parent_id == popped[Len(popped)]
           b1 == NewChild(builder, "section", NoId, <<>>, section.title,
                          section.level, parent_id)
           start_pos == section.end
           end_pos == IF i + 1 < Len(sections)
                      THEN sections[i + 2].position
                      ELSE IF Truthy(references_start_pos)
                           THEN references_start_pos ELSE Len(Body)
           section_content == Slice(Body, start_pos, end_pos)
       IN /\ section_stack' = Append(popped, section_id)
          /\ builder' = process_content_block(b1, section_content, section_id)
          /\ blocks' = Append(blocks, [version |-> Version, parent_id |-> section_id,
                                       content |-> section_content,
                                       start_pos |-> start_pos, end_pos |-> end_pos])
    /\ i' = i + 1
    /\ pc' = IF i + 1 = Len(sections) THEN "built" ELSE "sections"
    /\ UNCHANGED <<versions_data, vi, all_elements, all_hierarchies,
                   content_hash_to_id, id_mapping, version_hierarchy,
                   found_sections, sections, references_start_pos, k, built>>

\* root = builder.build_hierarchy(body_content) returns;
\* version_hierarchy = {}; id_mapping[version] = {}
StartNodeLoops ==
    /\ pc = "built"
    /\ built' = DictPut(built, Version, builder.all_nodes)
    /\ version_hierarchy' = <<>>
    /\ id_mapping' = DictPut(id_mapping, Version, <<>>)
    /\ k' = 0
    /\ pc' = "dedup"
    /\ UNCHANGED <<versions_data, vi, all_elements, all_hierarchies,
                   content_hash_to_id, builder, found_sections, sections,
                   references_start_pos, section_stack, i, blocks>>

\* one iteration of the first "for node_id, node in builder.all_nodes.items()"
DedupStep ==
    /\ pc = "dedup"
    /\ k < Len(builder.all_nodes)
    /\ LET node_id == builder.all_nodes[k + 1].key
           node == builder.all_nodes[k + 1].val
           canonical_id == CanonicalId(content_hash_to_id, node)
       IN /\ content_hash_to_id' =
                IF IsDedupLeaf(node) /\ StoresElement(content_hash_to_id, node)
                THEN DictPut(content_hash_to_id, node.content_hash, node_id)
                ELSE content_hash_to_id
          /\ all_elements' =
                IF StoresElement(content_hash_to_id, node)
                THEN DictPut(all_elements, node_id, ElementPayload(node))
                ELSE all_elements
          /\ id_mapping' = DictPut(id_mapping, Version,
                                   DictPut(DictGet(id_mapping, Version), node_id,
                                           canonical_id))
    /\ k' = IF k + 1 = Len(builder.all_nodes) THEN 0 ELSE k + 1
    /\ pc' = IF k + 1 = Len(builder.all_nodes) THEN "hier" ELSE "dedup"
    /\ UNCHANGED <<versions_data, vi, all_hierarchies, version_hierarchy, builder,
                   found_sections, sections, references_start_pos, section_stack,
                   i, built, blocks>>

\* one iteration of the second "for node_id, node in builder.all_nodes.items()"
HierStep ==
    /\ pc = "hier"
    /\ k < Len(builder.all_nodes)
    /\ LET node_id == builder.all_nodes[k + 1].key
           node == builder.all_nodes[k + 1].val
           mapping == DictGet(id_mapping, Version)
       IN version_hierarchy' =
            IF node.parent_id # NoId
            THEN DictPut(version_hierarchy, ChildCanonical(mapping, node_id),
                         ParentCanonical(mapping, node))
            ELSE version_hierarchy
    /\ k' = IF k + 1 = Len(builder.all_nodes) THEN 0 ELSE k + 1
    /\ pc' = IF k + 1 = Len(builder.all_nodes) THEN "store" ELSE "hier"
    /\ UNCHANGED <<versions_data, vi, all_elements, all_hierarchies,
                   content_hash_to_id, id_mapping, builder, found_sections,
                   sections, references_start_pos, section_stack, i, built, blocks>>

\* all_hierarchies[version] = version_hierarchy, and on to the next version
StoreHierarchy ==
    /\ pc = "store"
    /\ all_hierarchies' = DictPut(all_hierarchies, Version, version_hierarchy)
    /\ vi' = vi + 1
    /\ pc' = "versions"
    /\ UNCHANGED <<versions_data, all_elements, content_hash_to_id, id_mapping,
                   version_hierarchy, builder, found_sections, sections,
                   references_start_pos, section_stack, i, k, built, blocks>>

\* return {'elements': all_elements, 'hierarchy': all_hierarchies}
Return ==
    /\ pc = "versions"
    /\ vi = Len(versions_data)
    /\ pc' = "done"
    /\ UNCHANGED <<versions_data, vi, all_elements, all_hierarchies,
                   content_hash_to_id, id_mapping, version_hierarchy, builder,
                   found_sections, sections, references_start_pos, section_stack,
                   i, k, built, blocks>>

Next ==
    \/ SkipEmptyVersion
    \/ BeginBuild
    \/ NoSectionsBlock
    \/ SectionStep
    \/ StartNodeLoops
    \/ DedupStep
    \/ HierStep
    \/ StoreHierarchy
    \/ Return

-----------------------------------------------------------------------------
(* Inputs *)

\* the versions of the publication, in the order of the dict
Versions == <<"v1", "v2">>

SeqsUpTo(S, n) == UNION {[1..m -> S] : m \in 0..n}

VersionItem(version, body) == [key |-> version, val |-> [body |-> body]]

\* "A. "
SentA == <<Word(<<"A">>), DOT, SP>>

\* "B. "
SentB == <<Word(<<"B">>), DOT, SP>>

\* a blank line
ParBreak == <<NL, NL>>

\* "\begin{itemize}\item A.\n\end{itemize}"
ListA == <<Begin("itemize", FALSE), Command("item", FALSE, <<>>), SP,
           Word(<<"A">>), DOT, NL, End("itemize", FALSE)>>

\* "\begin{equation}x\end{equation}"
EqX == <<Begin("equation", FALSE), Word(<<"x">>), End("equation", FALSE)>>

\* "\begin{figure}\caption{Cap}\end{figure}"
FigCap == <<Begin("figure", FALSE), Command("caption", FALSE, <<Word(<<"C", "a", "p">>)>>),
            End("figure", FALSE)>>

HeadingOf(cmd, star, chars) == Command(cmd, star, <<Word(chars)>>)

SectionIntro == HeadingOf("section", FALSE, <<"I", "n", "t", "r", "o">>)

SubsectionMethod == HeadingOf("subsection", FALSE, <<"M", "e", "t", "h", "o", "d">>)

ChapterOne == HeadingOf("chapter", FALSE, <<"O", "n", "e">>)

SectionReferences ==
    HeadingOf("section", FALSE, <<"R", "e", "f", "e", "r", "e", "n", "c", "e", "s">>)

StarredREFERENCES ==
    HeadingOf("section", TRUE, <<"R", "E", "F", "E", "R", "E", "N", "C", "E", "S">>)

StarredNotes == HeadingOf("section", TRUE, <<"N", "o", "t", "e", "s">>)

StarredAppendix ==
    HeadingOf("section", TRUE, <<"A", "p", "p", "e", "n", "d", "i", "x">>)

\* "\bibliography{refs}"
BibCommand == Command("bibliography", FALSE, <<Word(<<"r", "e", "f", "s">>)>>)

\* the pieces the bodies of the reconciliation runs are made of
RecChunks ==
    { SentA, SentB, ParBreak, ListA,
      <<SectionIntro>> \o SentA, <<SectionIntro>> \o ListA }

\* the largest number of pieces in all the bodies of one reconciliation run
MaxChunks == 3

\* one or two versions whose bodies together are a sequence of pieces
RecInputs ==
    UNION { { <<VersionItem(Versions[1], Flatten(cs))>> }
            \cup { <<VersionItem(Versions[1], Flatten(SubSeq(cs, 1, m))),
                     VersionItem(Versions[2], Flatten(SubSeq(cs, m + 1, Len(cs))))>>
                   : m \in 0..Len(cs) }
            : cs \in SeqsUpTo(RecChunks, MaxChunks) }

Init == InitWith(RecInputs)

Spec == Init /\ [][Next]_vars

\* the pieces the bodies of the single-version runs are made of
SecChunks ==
    { <<SectionIntro>>, <<SubsectionMethod>>, <<ChapterOne>>, <<StarredREFERENCES>>,
      <<StarredNotes>>, <<StarredAppendix>>, <<BibCommand>>, SentA, EqX, ListA, FigCap }

\* the largest number of pieces in the body of a single-version run
MaxSecChunks == 3

\* "\section{Intro}Hello world. This is a test.\section{References}\bibitem..."
IntroExampleBody ==
    << SectionIntro,
       Word(<<"H", "e", "l", "l", "o">>), SP, Word(<<"w", "o", "r", "l", "d">>), DOT, SP,
       Word(<<"T", "h", "i", "s">>), SP, Word(<<"i", "s">>), SP, Word(<<"a">>), SP,
       Word(<<"t", "e", "s", "t">>), DOT,
       SectionReferences,
       Command("bibitem", FALSE, <<>>), DOT, DOT, DOT >>

\* the headings the bodies made of headings alone have
LevelHeadings == {ChapterOne, SectionIntro, SubsectionMethod}

\* the largest number of headings in a body made of headings alone
MaxHeadings == 5

SecInputs ==
    { <<VersionItem(Versions[1], Flatten(cs))>> : cs \in SeqsUpTo(SecChunks, MaxSecChunks) }
    \cup { <<VersionItem(Versions[1], hs)>> : hs \in SeqsUpTo(LevelHeadings, MaxHeadings) }
    \cup { <<VersionItem(Versions[1], IntroExampleBody)>> }

InitSec == InitWith(SecInputs)

SpecSec == InitSec /\ [][Next]_vars

\* "\begin{equation} x\end{equation}"
EqSpX == <<Begin("equation", FALSE), SP, Word(<<"x">>), End("equation", FALSE)>>

\* "\begin{equation}\nx\end{equation}": EqSpX with a newline for the space
EqNlX == <<Begin("equation", FALSE), NL, Word(<<"x">>), End("equation", FALSE)>>

\* the pieces the bodies of the runs over two versions with texts that differ
\* in whitespace are made of
OrdChunks == { EqSpX, EqNlX, SentA, <<SectionIntro>>, FigCap, ListA }

\* the largest number of pieces in the two bodies of such a run
MaxOrdChunks == 3

\* two versions whose bodies together are a sequence of pieces
OrdInputs ==
    UNION { { <<VersionItem(Versions[1], Flatten(SubSeq(cs, 1, m))),
                VersionItem(Versions[2], Flatten(SubSeq(cs, m + 1, Len(cs))))>>
              : m \in 0..Len(cs) }
            : cs \in SeqsUpTo(OrdChunks, MaxOrdChunks) }

InitOrd == InitWith(OrdInputs)

SpecOrd == InitOrd /\ [][Next]_vars

\* the tokens the bodies of the runs on environments are made of: the
\* delimiters of a list environment and of an environment of another kind,
\* the word "y" and a heading
EnvToks ==
    { Begin("itemize", FALSE), End("itemize", FALSE), Begin("center", FALSE),
      End("center", FALSE), Word(<<"y">>), SectionIntro }

\* the largest number of tokens in the body of a run on environments
MaxEnvToks == 4

\* "\item A.\n"
ItemA == <<Command("item", FALSE, <<>>), SP, Word(<<"A">>), DOT, NL>>

\* "\item B\n"
ItemB == <<Command("item", FALSE, <<>>), SP, Word(<<"B">>), NL>>

\* "\item "
ItemBare == <<Command("item", FALSE, <<>>), SP>>

\* the pieces the bodies of the list environments are made of
ListParts == { ItemA, ItemB, ItemBare, SentB }

\* the largest number of pieces in the body of a list environment
MaxListParts == 4

\* a single version whose body is a sequence of environment tokens, or one
\* list environment whose body is a sequence of pieces
EnvInputs ==
    { <<VersionItem(Versions[1], toks)>> : toks \in SeqsUpTo(EnvToks, MaxEnvToks) }
    \cup { <<VersionItem(Versions[1],
                         <<Begin("itemize", FALSE)>> \o Flatten(ps)
                            \o <<End("itemize", FALSE)>>)>>
           : ps \in SeqsUpTo(ListParts, MaxListParts) }

InitEnv == InitWith(EnvInputs)

SpecEnv == InitEnv /\ [][Next]_vars

TypeOK ==
    /\ pc \in {"versions", "block", "sections", "built", "dedup", "hier", "store", "done"}
    /\ vi \in 0..Len(versions_data)
    /\ i \in 0..Len(sections)
    /\ k \in 0..Len(builder.all_nodes)

-----------------------------------------------------------------------------
(* Properties of build_hierarchy_from_versions, checked under Spec *)

Done == pc = "done"

\* the versions a tree was built for
BuiltVersions == DictKeys(built)

\* the nodes the builder created for version v
NodesOf(v) == DictVals(DictGet(built, v))

\* the canonical id of the node of version v with id node_id
Canon(v, node_id) == DictGet(DictGet(id_mapping, v), node_id)

\* the emitted hierarchy map of version v
Hier(v) == DictGet(all_hierarchies, v)

IsLeaf(n) == n.type \in LeafTypes /\ n.content_hash # NoHash

\* the keys of elements that are ids of leaf nodes with fingerprint h
LeafEntries(h) ==
    {e \in DictKeys(all_elements) :
        \E v \in BuiltVersions : \E n \in NodesOf(v) :
            n.id = e /\ IsLeaf(n) /\ n.content_hash = h}

\* C1: after the run, two leaf nodes with the same fingerprint, of the same or
\* of different versions, have the same canonical id, and elements holds
\* exactly one leaf entry for that fingerprint
C1_OneCanonicalPerFingerprint ==
    Done =>
        \A v \in BuiltVersions, w \in BuiltVersions :
            \A n \in NodesOf(v), m \in NodesOf(w) :
                (IsLeaf(n) /\ IsLeaf(m) /\ n.content_hash = m.content_hash)
                => /\ Canon(v, n.id) = Canon(w, m.id)
                   /\ Cardinality(LeafEntries(n.content_hash)) = 1

\* a finished run where two versions hold a leaf with the same fingerprint
C1_Witness ==
    /\ Done
    /\ \E v \in BuiltVersions, w \in BuiltVersions :
          /\ v # w
          /\ \E n \in NodesOf(v), m \in NodesOf(w) :
                IsLeaf(n) /\ IsLeaf(m) /\ n.content_hash = m.content_hash

\* the paragraphs of version v that have a sentence with fingerprint h
ParagraphsWith(v, h) ==
    {p.id : p \in {q \in NodesOf(v) :
                     /\ q.type = "paragraph"
                     /\ \E s \in NodesOf(v) :
                           s.type = "sentence" /\ s.parent_id = q.id
                           /\ s.content_hash = h}}

\* C2: when a sentence occurs in two versions, the hierarchy map of each of
\* them has an entry from the sentence's canonical id to the id of a
\* paragraph that contains the sentence in that version
C2_SentenceUnderItsParagraph ==
    Done =>
        \A v \in BuiltVersions, w \in BuiltVersions :
            \A n \in NodesOf(v), m \in NodesOf(w) :
                (v # w /\ n.type = "sentence" /\ m.type = "sentence"
                 /\ n.content_hash = m.content_hash)
                => /\ DictHas(Hier(v), Canon(v, n.id))
                   /\ DictGet(Hier(v), Canon(v, n.id))
                        \in ParagraphsWith(v, n.content_hash)

\* C3: in every emitted hierarchy map each parent is the version's root or a
\* key of the same map, and every key and every parent is a key of elements
C3_NoDanglingReference ==
    \A v \in DictKeys(all_hierarchies) :
        \A n \in 1..Len(Hier(v)) :
            /\ Hier(v)[n].val = RootId(pub_id, v) \/ Hier(v)[n].val \in DictKeys(Hier(v))
            /\ Hier(v)[n].key \in DictKeys(all_elements)
            /\ Hier(v)[n].val \in DictKeys(all_elements)

\* a finished run where a hierarchy map has a key registered by another
\* version, under a parent that is not the root
C3_Witness ==
    /\ Done
    /\ \E v \in DictKeys(all_hierarchies) :
          \E n \in 1..Len(Hier(v)) :
              /\ Hier(v)[n].val # RootId(pub_id, v)
              /\ \E m \in NodesOf(v) :
                    Canon(v, m.id) = Hier(v)[n].key /\ m.id # Hier(v)[n].key

\* C4: for every non-root node n of version v the map has the entry
\* canonical(n) -> canonical(parent(n)), and the root's id is not a key
C4_EveryNodeHasItsEntry ==
    Done =>
        \A v \in BuiltVersions :
            /\ ~DictHas(Hier(v), RootId(pub_id, v))
            /\ \A n \in NodesOf(v) :
                  n.parent_id # NoId
                  => /\ DictHas(Hier(v), Canon(v, n.id))
                     /\ DictGet(Hier(v), Canon(v, n.id)) = Canon(v, n.parent_id)

-----------------------------------------------------------------------------
(* Properties of build_hierarchy, checked under SpecSec when the builder has
   returned the tree of the version at hand *)

Built == pc = "built"

\* the calls of _process_content_block for the version at hand
CurBlocks == SelectSeq(blocks, LAMBDA b : b.version = Version)

\* the nodes of the tree of the version at hand
CurNodes == DictVals(builder.all_nodes)

\* the id of the n-th section node
SectionId(n) == generate_element_id(pub_id, Version, "section", n, NoId)

\* the offsets of the headings of the body with a references title
ReferencesHeadings(body) ==
    {n - 1 : n \in {m \in 1..Len(body) :
                      SectionMatch(body[m]) /\ IsReferencesTitle(body[m].arg)}}

\* the offsets of the bibliography commands of the body
BiblioCommands(body) == {n - 1 : n \in {m \in 1..Len(body) : BiblioMatch(body[m])}}

SetMin(S) == CHOOSE x \in S : \A y \in S : x <= y

SetMax(S) == CHOOSE x \in S : \A y \in S : x >= y

\* the block b takes no text at or after offset p
BlockBefore(b, p) == b.content = <<>> \/ b.start_pos + Len(b.content) <= p

\* C5: with a references heading at any offset p (0 included), no block of
\* the tree takes text at or after p and no heading at or after p becomes a
\* section node
C5_NothingAfterReferencesHeading ==
    (Built /\ ReferencesHeadings(Body) # {}) =>
        LET p == SetMin(ReferencesHeadings(Body))
        IN /\ \A n \in 1..Len(CurBlocks) : BlockBefore(CurBlocks[n], p)
           /\ \A n \in 1..Len(sections) : sections[n].position < p
           /\ Cardinality({nd \in CurNodes : nd.type = "section"}) = Len(sections)

\* C6: the boundary is the least offset of a references heading or a
\* bibliography command, and when a bibliography command comes first no
\* section starts after it and no block takes text at or after it
C6_EarliestBoundaryWins ==
    (Built /\ ReferencesHeadings(Body) \cup BiblioCommands(Body) # {}) =>
        LET p == SetMin(ReferencesHeadings(Body) \cup BiblioCommands(Body))
        IN /\ references_start_pos = p
           /\ p \in BiblioCommands(Body)
              => /\ \A n \in 1..Len(sections) : sections[n].position < p
                 /\ \A n \in 1..Len(CurBlocks) : BlockBefore(CurBlocks[n], p)

\* the retained sections before the n-th whose level is smaller than its level
SmallerBefore(n) == {m \in 1..(n - 1) : sections[m].level < sections[n].level}

\* the parent the n-th section node is to have
NearestSmaller(n) ==
    IF SmallerBefore(n) = {} THEN RootId(pub_id, Version)
    ELSE SectionId(SetMax(SmallerBefore(n)))

\* C7: the parent of each section node is the nearest preceding retained
\* section of strictly smaller level, and the root when there is none
C7_SectionParentIsNearestSmaller ==
    pc \in {"sections", "built"} =>
        \A n \in 1..i :
            /\ Node(builder.all_nodes, SectionId(n)).parent_id = NearestSmaller(n)
            /\ \E c \in 1..Len(Node(builder.all_nodes, NearestSmaller(n)).children) :
                  Node(builder.all_nodes, NearestSmaller(n)).children[c] = SectionId(n)

\* a tree where a section hangs under a section that is not the one right
\* before it, and a chapter hangs under the root after other sections
C7_Witness ==
    /\ Built
    /\ \E n \in 1..Len(sections) :
          \E m \in 1..(n - 2) :
              Node(builder.all_nodes, SectionId(n)).parent_id = SectionId(m)
    /\ \E n \in 2..Len(sections) :
          /\ sections[n].level = 0
          /\ Node(builder.all_nodes, SectionId(n)).parent_id = RootId(pub_id, Version)

\* the heading at index n of the body is in the list extract_sections
\* returned, tagged is_references = tag
Reported(n, tag) ==
    \E m \in 1..Len(found_sections) :
        /\ found_sections[m].position = n - 1
        /\ found_sections[m].title = Body[n].arg
        /\ found_sections[m].is_references = tag

IsReported(n) == \E m \in 1..Len(found_sections) : found_sections[m].position = n - 1

CurOfType(type) == {nd \in CurNodes : nd.type = type}

\* the contents of the children of a node, as strings
ChildContents(nd) ==
    [c \in 1..Len(nd.children) |-> Render(Node(builder.all_nodes, nd.children[c]).content)]

ChildTypes(nd) ==
    [c \in 1..Len(nd.children) |-> Node(builder.all_nodes, nd.children[c]).type]

\* C9 as stated: for the example body the tree has one section node, titled
\* Intro, whose children are the two sentence nodes "Hello world." and
\* "This is a test.", and no other section
C9_IntroExampleAsStated ==
    (Built /\ Body = IntroExampleBody) =>
        /\ Cardinality(CurOfType("section")) = 1
        /\ \A sec \in CurOfType("section") :
              /\ Render(sec.title) = "Intro"
              /\ ChildTypes(sec) = <<"sentence", "sentence">>
              /\ ChildContents(sec) = <<"Hello world.", "This is a test.">>

\* C9 amended: for the example body the tree has one section node, titled
\* Intro, with one paragraph child "Hello world. This is a test." whose
\* children are the two sentence nodes "Hello world." and "This is a test.";
\* the tree has no other node than the root and these four
C9_IntroExample ==
    (Built /\ Body = IntroExampleBody) =>
        /\ Cardinality(CurOfType("section")) = 1
        /\ Len(builder.all_nodes) = 5
        /\ \A sec \in CurOfType("section") :
              /\ Render(sec.title) = "Intro"
              /\ sec.parent_id = RootId(pub_id, Version)
              /\ ChildTypes(sec) = <<"paragraph">>
              /\ ChildContents(sec) = <<"Hello world. This is a test.">>
              /\ LET para == Node(builder.all_nodes, sec.children[1])
                 IN /\ ChildTypes(para) = <<"sentence", "sentence">>
                    /\ ChildContents(para) = <<"Hello world.", "This is a test.">>

\* the tree of the example body has been built
C9_Witness == Built /\ Body = IntroExampleBody

\* the environments of a block that get a node
NodeEnvs(content) ==
    SelectSeq(extract_environments(content),
              LAMBDA e : e.env_type \in {"equation", "figure", "list"})

\* C10: children are in source order; so when a block has plain text before
\* its first environment, a paragraph of the block's parent precedes the
\* node of that environment in the parent's children
C10_ChildrenInSourceOrder ==
    Built =>
        \A n \in 1..Len(CurBlocks) :
            LET b == CurBlocks[n]
                envs == NodeEnvs(b.content)
                parent == Node(builder.all_nodes, b.parent_id)
            IN (/\ envs # <<>>
                /\ extract_environments(b.content)[1] = envs[1]
                /\ Strip(Slice(b.content, 0, envs[1].position)) # <<>>)
               => \E e \in 1..Len(parent.children), q \in 1..Len(parent.children) :
                     /\ q < e
                     /\ Node(builder.all_nodes, parent.children[q]).type = "paragraph"
                     /\ Node(builder.all_nodes, parent.children[e]).type = envs[1].env_type
                     /\ Node(builder.all_nodes, parent.children[e]).content
                           = envs[1].full_content

\* the number of times x is in the sequence seq
Occurrences(seq, x) == Cardinality({c \in 1..Len(seq) : seq[c] = x})

\* the index of the entry of the node table with the key id, 0 when it has none
TableIndex(id) ==
    IF DictHas(builder.all_nodes, id)
    THEN CHOOSE n \in 1..Len(builder.all_nodes) : builder.all_nodes[n].key = id
    ELSE 0

\* C11: after build_hierarchy the node table is a single-rooted tree: every
\* node is registered under its id, the root is the only node without a
\* parent, the parent_id of every other node is the key of a node created
\* before it, and a non-root node is once in the children of its parent and
\* in the children of no other node
C11_SingleRootedTree ==
    Built =>
        /\ \A n \in 1..Len(builder.all_nodes) :
              builder.all_nodes[n].key = builder.all_nodes[n].val.id
        /\ \A nd \in CurNodes :
              IF nd.id = RootId(pub_id, Version)
              THEN /\ nd.parent_id = NoId
                   /\ nd.type = "document"
                   /\ \A m \in CurNodes : Occurrences(m.children, nd.id) = 0
              ELSE /\ nd.parent_id # NoId
                   /\ DictHas(builder.all_nodes, nd.parent_id)
                   /\ TableIndex(nd.parent_id) < TableIndex(nd.id)
                   /\ \A m \in CurNodes :
                         Occurrences(m.children, nd.id)
                            = IF m.id = nd.parent_id THEN 1 ELSE 0

\* a tree with a sentence in a paragraph of a section that hangs under
\* another section
C11_Witness ==
    /\ Built
    /\ \E s \in CurOfType("sentence"), p \in CurOfType("paragraph"),
           sec \in CurOfType("section"), top \in CurOfType("section") :
          /\ s.parent_id = p.id
          /\ p.parent_id = sec.id
          /\ sec.parent_id = top.id
          /\ top.parent_id = RootId(pub_id, Version)

\* the end-of-body boundary: the least offset of a references heading or of a
\* bibliography command, the length of the body when it has neither
EndOfBody(body) ==
    IF ReferencesHeadings(body) \cup BiblioCommands(body) = {} THEN Len(body)
    ELSE SetMin(ReferencesHeadings(body) \cup BiblioCommands(body))

\* the token t is in the content of a node of the tree
InSomeContent(t) ==
    \E nd \in CurNodes : \E c \in 1..Len(nd.content) : nd.content[c] = t

\* C12: no text is dropped: every word of the body before the end-of-body
\* boundary, the words before the first retained heading included, is in the
\* content of at least one node of the tree
C12_NoTextDropped ==
    Built =>
        \A n \in 1..Len(Body) :
            (n - 1 < EndOfBody(Body) /\ Body[n].k = "word") => InSomeContent(Body[n])

\* the number of calls of _get_next_id so far: each call adds one to the
\* counter of its element type
IdCalls ==
    builder.node_counter["section"] + builder.node_counter["paragraph"]
    + builder.node_counter["sentence"] + builder.node_counter["equation"]
    + builder.node_counter["figure"] + builder.node_counter["list"]
    + builder.node_counter["item"]

\* C13: within one build the ids _get_next_id returned are pairwise different
\* (each call registers a node under the id it returned, so the table has one
\* key for the root and one for every call), and the root's id is
\* "<pub_id>-<version>-document", made while every counter is still 0
C13_IdsAreUnique ==
    pc \in {"block", "sections", "built"} =>
        /\ Len(builder.all_nodes) = 1 + IdCalls
        /\ builder.all_nodes[1].key = "2310-15395-" \o Version \o "-document"
        /\ builder.all_nodes[1].val.type = "document"
        /\ \A n \in 2..Len(builder.all_nodes) :
              builder.all_nodes[n].val.type # "document"
        /\ (pc = "block" \/ (pc = "sections" /\ i = 0)) =>
              /\ IdCalls = 0
              /\ Len(builder.all_nodes) = 1

\* a tree with two sentences of one paragraph of a section: two calls of
\* _get_next_id with the same element type and the same parent id
C13_Witness ==
    /\ Built
    /\ \E a \in CurOfType("sentence"), b \in CurOfType("sentence") :
          /\ a.id # b.id
          /\ a.parent_id = b.parent_id
          /\ Node(builder.all_nodes, a.parent_id).parent_id = SectionId(1)

-----------------------------------------------------------------------------
(* Properties of the reconciliation of two versions, checked under SpecOrd *)

RECURSIVE DedupLoop(_, _, _)
\* the first node loop of build_hierarchy_from_versions over the node table
\* nodes from its n-th entry on; st holds all_elements and content_hash_to_id
DedupLoop(st, nodes, n) ==
    IF n > Len(nodes) THEN st
    ELSE LET node == nodes[n].val
             stores == StoresElement(st.content_hash_to_id, node)
         IN DedupLoop(
              [all_elements |->
                  IF stores
                  THEN DictPut(st.all_elements, nodes[n].key, ElementPayload(node))
                  ELSE st.all_elements,
               content_hash_to_id |->
                  IF IsDedupLeaf(node) /\ stores
                  THEN DictPut(st.content_hash_to_id, node.content_hash, nodes[n].key)
                  ELSE st.content_hash_to_id],
              nodes, n + 1)

RECURSIVE DedupVersions(_, _, _)
\* the first node loops of the versions order[n], order[n + 1], .. over the
\* trees their builders returned
DedupVersions(st, order, n) ==
    IF n > Len(order) THEN st
    ELSE DedupVersions(DedupLoop(st, DictGet(built, order[n]), 1), order, n + 1)

\* all_elements of a run that takes the built versions in the given order
ElementsInOrder(order) ==
    DedupVersions([all_elements |-> <<>>, content_hash_to_id |-> <<>>], order, 1)
        .all_elements

\* the order the run at hand took the built versions in
RunOrder == [n \in 1..Len(built) |-> built[n].key]

Reverse(seq) == [n \in 1..Len(seq) |-> seq[Len(seq) + 1 - n]]

\* the payloads of an elements table, as a set of strings
PayloadSet(elements) == {Render(elements[n].val) : n \in 1..Len(elements)}

\* the elements table of the run is the one DedupVersions gives for its order
ElementsInOrderAgrees == Done => all_elements = ElementsInOrder(RunOrder)

\* C15: taking the versions in the other order gives the same set of payload
\* strings, also when leaves of the two versions have one fingerprint and raw
\* texts that differ in whitespace
C15_PayloadSetIgnoresOrder ==
    Done => PayloadSet(all_elements) = PayloadSet(ElementsInOrder(Reverse(RunOrder)))

-----------------------------------------------------------------------------
(* Properties of the first node loop, checked under Spec *)

\* the nodes of the built versions in processing order: the versions in the
\* order of the run, the nodes of a version in the order of its node table
ProcessedNodes ==
    Flatten([n \in 1..Len(built) |->
                [m \in 1..Len(built[n].val) |->
                    [version |-> built[n].key, node |-> built[n].val[m].val]]])

\* the index in ProcessedNodes of the first leaf with the fingerprint h
FirstLeaf(h) ==
    SetMin({q \in 1..Len(ProcessedNodes) :
               IsLeaf(ProcessedNodes[q].node) /\ ProcessedNodes[q].node.content_hash = h})

\* the node the first node loop is at
DedupNode == builder.all_nodes[k + 1].val

\* the node the first node loop is at is a leaf whose fingerprint is registered
AtLaterLeaf ==
    /\ pc = "dedup"
    /\ IsLeaf(DedupNode)
    /\ DictHas(content_hash_to_id, DedupNode.content_hash)

\* a step registers the id of a leaf with a new fingerprint and stores its
\* content, adds nothing for a leaf with a registered fingerprint, and leaves
\* every registered fingerprint with the id it has
FirstWriterStep ==
    /\ \A n \in 1..Len(content_hash_to_id) :
          /\ n <= Len(content_hash_to_id')
          /\ content_hash_to_id'[n] = content_hash_to_id[n]
    /\ AtLaterLeaf =>
          /\ all_elements' = all_elements
          /\ content_hash_to_id' = content_hash_to_id
    /\ (pc = "dedup" /\ IsLeaf(DedupNode) /\ ~AtLaterLeaf) =>
          /\ DictGet(content_hash_to_id', DedupNode.content_hash) = DedupNode.id
          /\ DictGet(all_elements', DedupNode.id) = DedupNode.content

\* after the run every leaf has the id of the first leaf with its fingerprint
\* as canonical id, and only that first leaf has an entry of elements
FirstWriterIsCanonical ==
    Done =>
        \A q \in 1..Len(ProcessedNodes) :
            LET v == ProcessedNodes[q].version
                nd == ProcessedNodes[q].node
            IN IsLeaf(nd) =>
                 LET first == ProcessedNodes[FirstLeaf(nd.content_hash)].node
                 IN /\ DictGet(content_hash_to_id, nd.content_hash) = first.id
                    /\ Canon(v, nd.id) = first.id
                    /\ DictHas(all_elements, nd.id) <=> nd.id = first.id

\* C16: first writer wins: the canonical id of a fingerprint is the id of the
\* first leaf with it in processing order, a registered fingerprint is never
\* given another id, and a later leaf with the fingerprint adds no entry to
\* elements
C16_FirstWriterWins == [][FirstWriterStep]_vars /\ []FirstWriterIsCanonical

\* the first node loop of the second version is at a leaf whose fingerprint a
\* leaf of the first version registered
C16_Witness ==
    /\ AtLaterLeaf
    /\ vi = 1
    /\ DictHas(built, Versions[1])
    /\ \E n \in NodesOf(Versions[1]) :
          IsLeaf(n) /\ n.content_hash = DedupNode.content_hash

\* the types of the structural nodes
StructuralTypes == {"document", "section", "paragraph", "list"}

\* C17: structural nodes are not deduplicated: after the run every document,
\* section, paragraph and list node of every version is a key of elements
\* and is its own canonical id, whatever the other version holds
C17_StructuralNodesKeepTheirId ==
    Done =>
        \A v \in BuiltVersions :
            \A n \in NodesOf(v) :
                n.type \in StructuralTypes
                => /\ DictHas(all_elements, n.id)
                   /\ Canon(v, n.id) = n.id
                   /\ \A w \in BuiltVersions : \A m \in NodesOf(w) :
                         m.id # n.id => Canon(w, m.id) # n.id

\* a finished run where the two versions have a section with the same title
\* and a paragraph with the same content
C17_Witness ==
    /\ Done
    /\ DictHas(built, Versions[1])
    /\ DictHas(built, Versions[2])
    /\ \A type \in {"section", "paragraph"} :
          \E a \in NodesOf(Versions[1]), b \in NodesOf(Versions[2]) :
              /\ a.type = type
              /\ b.type = type
              /\ a.title = b.title
              /\ a.content = b.content

\* the versions of the input with an empty body, and those with a body
EmptyVersions ==
    {versions_data[n].key : n \in {m \in 1..Len(versions_data) :
                                      versions_data[m].val.body = <<>>}}

NonEmptyVersions == DictKeys(versions_data) \ EmptyVersions

\* the loop is at a version with an empty body
AtEmptyVersion == pc = "versions" /\ vi < Len(versions_data) /\ Body = <<>>

\* the iteration for a version with an empty body goes on to the next version
\* and leaves the tables the loop carries as they are
SkipStep ==
    AtEmptyVersion =>
        /\ vi' = vi + 1
        /\ pc' = "versions"
        /\ UNCHANGED <<all_elements, all_hierarchies, content_hash_to_id, id_mapping>>

\* after the run the hierarchy has one map for each version with a body and
\* none for the others, every key of elements is the id of a node of a
\* version with a body, and the root of each such version is a key
SkippedVersionsLeaveNothing ==
    Done =>
        /\ BuiltVersions = NonEmptyVersions
        /\ \A v \in DictKeys(versions_data) :
              Occurrences([n \in 1..Len(all_hierarchies) |-> all_hierarchies[n].key], v)
                 = IF v \in EmptyVersions THEN 0 ELSE 1
        /\ DictKeys(all_elements)
              \subseteq UNION {{n.id : n \in NodesOf(v)} : v \in NonEmptyVersions}
        /\ \A v \in NonEmptyVersions : DictHas(all_elements, RootId(pub_id, v))
        /\ \A v \in EmptyVersions : ~DictHas(all_elements, RootId(pub_id, v))
        /\ all_elements = ElementsInOrder(RunOrder)

\* C18: a version with an empty body is skipped: its iteration adds nothing
\* to elements or hierarchy and leaves the state of the loop as it was, so
\* that the other versions are processed as if it had not been supplied;
\* a version with a body gets one hierarchy map and its root is in elements
C18_EmptyVersionIsSkipped == [][SkipStep]_vars /\ []SkippedVersionsLeaveNothing

\* a finished run whose first version has an empty body and whose second
\* version has a body
C18_Witness ==
    /\ Done
    /\ Len(versions_data) = 2
    /\ versions_data[1].val.body = <<>>
    /\ versions_data[2].val.body # <<>>
    /\ DictHas(all_hierarchies, versions_data[2].key)

\* the node of a built version with the given id
BuiltNode(id) ==
    CHOOSE n \in UNION {NodesOf(v) : v \in BuiltVersions} : n.id = id

\* the payload the node is to have in elements
PayloadOf(n) == IF n.type \in {"document", "section"} THEN n.title ELSE n.content

\* C19: the payload of a document or section is its title, the payload of a
\* paragraph, list, sentence, equation, figure or item is its content; for
\* a node that is not its own canonical id the entry is the one of the
\* canonical node, with the content of that node
C19_PayloadIsTitleOrContent ==
    Done =>
        /\ \A n \in 1..Len(all_elements) :
              all_elements[n].val = PayloadOf(BuiltNode(all_elements[n].key))
        /\ \A v \in BuiltVersions : \A n \in NodesOf(v) :
              /\ DictHas(all_elements, Canon(v, n.id))
              /\ DictGet(all_elements, Canon(v, n.id))
                    = PayloadOf(BuiltNode(Canon(v, n.id)))

\* a finished run with a figure that has a caption and with an equation whose
\* canonical node has another raw text
C19_Witness ==
    /\ Done
    /\ \E v \in BuiltVersions : \E n \in NodesOf(v) :
          n.type = "figure" /\ n.title # <<>> /\ n.content # <<>>
    /\ \E v \in BuiltVersions : \E n \in NodesOf(v) :
          /\ n.type = "equation"
          /\ Canon(v, n.id) # n.id
          /\ BuiltNode(Canon(v, n.id)).content # n.content

-----------------------------------------------------------------------------
(* Properties of build_hierarchy for a body without a retained section,
   checked under SpecSec *)

\* no section is retained: extract_sections reported no heading, or the first
\* heading it reported has a references title
NoSectionRetained == found_sections = <<>> \/ found_sections[1].is_references

\* a builder that has the root of the version at hand and no other node
RootOnly ==
    [NewBuilder(pub_id, Version) EXCEPT
        !.all_nodes = DictPut(@, RootId(pub_id, Version), RootNode(pub_id, Version))]

\* C20: when no section is retained, the body up to the end-of-body boundary
\* is processed as one block under the root: the tree is the one that block
\* gives, its environment and paragraph nodes are children of the root, and
\* it has no section node
C20_ImplicitBlockUnderRoot ==
    (Built /\ NoSectionRetained) =>
        /\ Len(CurBlocks) = 1
        /\ CurBlocks[1].parent_id = RootId(pub_id, Version)
        /\ CurBlocks[1].content = Slice(Body, 0, EndOfBody(Body))
        /\ builder.all_nodes
              = process_content_block(RootOnly, Slice(Body, 0, EndOfBody(Body)),
                                      RootId(pub_id, Version)).all_nodes
        /\ CurOfType("section") = {}
        /\ \A nd \in CurNodes :
              nd.type \in {"equation", "figure", "list", "paragraph"}
              => nd.parent_id = RootId(pub_id, Version)

-----------------------------------------------------------------------------
(* Properties of extract_environments and _process_content_block, checked
   under SpecEnv when the builder has returned the tree *)

\* the token at index n of the text opens an environment that no later token
\* of the text closes
UnmatchedBegin(content, n) ==
    /\ content[n].k = "begin"
    /\ ~\E m \in (n + 1)..Len(content) :
           /\ content[m].k = "end"
           /\ content[m].name = content[n].name
           /\ content[m].star = content[n].star

\* the spans extract_environments reports for the block
Spans(b) == extract_environments(b.content)

\* the token at index n of the block is the first token of a reported span
StartsSpan(b, n) == \E e \in 1..Len(Spans(b)) : Spans(b)[e].position = n - 1

\* the token at index n of the block lies in a reported span, after its
\* first token
InsideSpan(b, n) ==
    \E e \in 1..Len(Spans(b)) :
        Spans(b)[e].position < n - 1 /\ n - 1 < Spans(b)[e].end

\* the token t is in the content of a paragraph of the block's parent and in
\* the content of a sentence of that paragraph
InParagraphAndSentence(b, t) ==
    \E p \in CurOfType("paragraph") :
        /\ p.parent_id = b.parent_id
        /\ \E c \in 1..Len(p.content) : p.content[c] = t
        /\ \E s \in CurOfType("sentence") :
              /\ s.parent_id = p.id
              /\ \E c \in 1..Len(s.content) : s.content[c] = t

\* every equation, figure and list node holds a text that starts with a
\* \begin and ends with the \end of the same name
EnvNodesAreDelimited ==
    \A nd \in CurNodes :
        nd.type \in {"equation", "figure", "list"}
        => /\ nd.content[1].k = "begin"
           /\ nd.content[Len(nd.content)].k = "end"
           /\ nd.content[Len(nd.content)].name = nd.content[1].name
           /\ nd.content[Len(nd.content)].star = nd.content[1].star

\* C21 as stated: an unmatched \begin of a block is not the start of a
\* reported span, gives no environment node, and is in a paragraph and in a
\* sentence of the block's parent
C21_UnmatchedBeginAsStated ==
    Built =>
        /\ EnvNodesAreDelimited
        /\ \A q \in 1..Len(CurBlocks) :
              \A n \in 1..Len(CurBlocks[q].content) :
                  UnmatchedBegin(CurBlocks[q].content, n)
                  => /\ ~StartsSpan(CurBlocks[q], n)
                     /\ InParagraphAndSentence(CurBlocks[q], CurBlocks[q].content[n])

\* C21 amended: an unmatched \begin of a block is not the start of a reported
\* span and gives no environment node; when it does not lie inside the span
\* of another environment it is in a paragraph and in a sentence of the
\* block's parent
C21_UnmatchedBeginIsPlainText ==
    Built =>
        /\ EnvNodesAreDelimited
        /\ \A q \in 1..Len(CurBlocks) :
              \A n \in 1..Len(CurBlocks[q].content) :
                  UnmatchedBegin(CurBlocks[q].content, n)
                  => /\ ~StartsSpan(CurBlocks[q], n)
                     /\ ~InsideSpan(CurBlocks[q], n)
                        => InParagraphAndSentence(CurBlocks[q], CurBlocks[q].content[n])

\* a block with a reported span and, outside it, an unmatched \begin
C21_Witness ==
    /\ Built
    /\ \E q \in 1..Len(CurBlocks) :
          /\ Spans(CurBlocks[q]) # <<>>
          /\ \E n \in 1..Len(CurBlocks[q].content) :
                /\ UnmatchedBegin(CurBlocks[q].content, n)
                /\ ~InsideSpan(CurBlocks[q], n)

\* the number of tokens of the text of the given kind (begin or end) that
\* name the environment of the token t
CountOf(text, kind, t) ==
    Cardinality({c \in 1..Len(text) :
                    /\ text[c].k = kind
                    /\ text[c].name = t.name
                    /\ text[c].star = t.star})

\* the text starts with a \begin{N} and its last token is the \end{N} that
\* balances it: before the last token more \begin{N} than \end{N} are read,
\* with the last token as many
BalancedSpan(text) ==
    /\ text[1].k = "begin"
    /\ text[Len(text)].k = "end"
    /\ text[Len(text)].name = text[1].name
    /\ text[Len(text)].star = text[1].star
    /\ \A c \in 1..Len(text) :
          LET opens == CountOf(SubSeq(text, 1, c), "begin", text[1])
              closes == CountOf(SubSeq(text, 1, c), "end", text[1])
          IN IF c = Len(text) THEN opens = closes ELSE opens > closes

\* C22: every span extract_environments reports for a block is the text from
\* a \begin{N} to the \end{N} that balances it, also with a pair of the
\* same name nested inside, and lies where the block has that text
C22_SpansAreBalanced ==
    Built =>
        \A q \in 1..Len(CurBlocks) :
            \A e \in 1..Len(Spans(CurBlocks[q])) :
                LET span == Spans(CurBlocks[q])[e]
                IN /\ span.full_content
                        = Slice(CurBlocks[q].content, span.position, span.end)
                   /\ BalancedSpan(span.full_content)

\* the indices of the \item commands of the text, in a sequence, in order
ItemIndices(text) ==
    SelectSeq([c \in 1..Len(text) |-> c], LAMBDA c : IsItemCmd(text[c]))

\* the text that follows the j-th \item, up to the next \item or the end
SegmentAfter(text, j) ==
    LET idx == ItemIndices(text)
    IN SubSeq(text, idx[j] + 1,
              IF j < Len(idx) THEN idx[j + 1] - 1 ELSE Len(text))

\* the trimmed segments after the \item commands that are not empty, in order
ExpectedItems(text) ==
    SelectSeq([j \in 1..Len(ItemIndices(text)) |-> Strip(SegmentAfter(text, j))],
              LAMBDA seg : seg # <<>>)

\* the list spans of the block, and the list nodes of its parent, in order
ListSpans(b) == SelectSeq(Spans(b), LAMBDA e : e.env_type = "list")

ListNodes(b) ==
    SelectSeq([c \in 1..Len(Node(builder.all_nodes, b.parent_id).children) |->
                  Node(builder.all_nodes,
                       Node(builder.all_nodes, b.parent_id).children[c])],
              LAMBDA nd : nd.type = "list")

\* C23: each list span of a block has a list node whose content is the whole
\* delimited text; the children of the node are item nodes, one for each
\* non-empty trimmed segment after an \item, in source order, with the
\* segment as content and an empty title; the text before the first \item
\* gives no item
C23_ListItems ==
    Built =>
        \A q \in 1..Len(CurBlocks) :
            /\ Len(ListNodes(CurBlocks[q])) = Len(ListSpans(CurBlocks[q]))
            /\ \A j \in 1..Len(ListSpans(CurBlocks[q])) :
                  LET span == ListSpans(CurBlocks[q])[j]
                      nd == ListNodes(CurBlocks[q])[j]
                  IN /\ nd.content = span.full_content
                     /\ nd.title = <<>>
                     /\ Len(nd.children) = Len(ExpectedItems(span.content))
                     /\ \A c \in 1..Len(nd.children) :
                           LET item == Node(builder.all_nodes, nd.children[c])
                           IN /\ item.type = "item"
                              /\ item.content = ExpectedItems(span.content)[c]
                              /\ item.title = <<>>
                              /\ item.parent_id = nd.id

\* a list with text before its first \item, an \item without text and two
\* items
C23_Witness ==
    /\ Built
    /\ \E q \in 1..Len(CurBlocks) : \E j \in 1..Len(ListSpans(CurBlocks[q])) :
          LET span == ListSpans(CurBlocks[q])[j]
          IN /\ ItemIndices(span.content) # <<>>
             /\ Strip(SubSeq(span.content, 1, ItemIndices(span.content)[1] - 1)) # <<>>
             /\ Len(ExpectedItems(span.content)) = 2
             /\ Len(ItemIndices(span.content)) = 3

-----------------------------------------------------------------------------
(* Properties of the levels and types of the nodes of a tree, checked under
   SpecSec when the builder has returned the tree *)

\* the depth of a sectioning command
DepthOf(command) ==
    CASE command = "chapter" -> 0
      [] command = "section" -> 1
      [] command = "subsection" -> 2
      [] command = "subsubsection" -> 3
      [] command = "paragraph" -> 4
      [] command = "subparagraph" -> 5

\* C24: the root has level 0, the n-th section node has the depth of the
\* command of the n-th retained heading, wherever it is attached, and a node
\* of another type has the level of its parent plus 1
C24_Levels ==
    Built =>
        /\ Node(builder.all_nodes, RootId(pub_id, Version)).level = 0
        /\ Cardinality(CurOfType("section")) = Len(sections)
        /\ \A n \in 1..Len(sections) :
              Node(builder.all_nodes, SectionId(n)).level
                 = DepthOf(Body[sections[n].position + 1].name)
        /\ \A nd \in CurNodes :
              nd.type \notin {"document", "section"}
              => nd.level = Node(builder.all_nodes, nd.parent_id).level + 1

\* a tree with a subsection under the root and, in it, a list with an item
C24_Witness ==
    /\ Built
    /\ \E sec \in CurOfType("section"), l \in CurOfType("list"),
           it \in CurOfType("item") :
          /\ sec.level = 2
          /\ sec.parent_id = RootId(pub_id, Version)
          /\ l.parent_id = sec.id
          /\ it.parent_id = l.id

\* the text the block of the n-th retained section is to hold: from the end
\* of its heading to the start of the next retained heading, for the last
\* one to the end-of-body boundary
SectionText(n) ==
    Slice(Body, sections[n].position + 1,
          IF n < Len(sections) THEN sections[n + 1].position ELSE EndOfBody(Body))

\* the heading at index m of the body is dropped: extract_sections does not
\* report it
DroppedHeading(m) == SectionMatch(Body[m]) /\ ~IsReported(m)

\* the last retained section whose heading is before index m of the body, 0
\* when there is none
SectionBefore(m) ==
    IF \E n \in 1..Len(sections) : sections[n].position < m - 1
    THEN SetMax({n \in 1..Len(sections) : sections[n].position < m - 1})
    ELSE 0

\* C25: the block of the n-th retained section is the body text from the end
\* of its heading to the start of the next retained heading, for the last
\* section to the boundary or the end of the body; a dropped starred
\* heading in that text is in a paragraph of the section
C25_SectionBlocks ==
    (Built /\ sections # <<>>) =>
        /\ Len(CurBlocks) = Len(sections)
        /\ \A n \in 1..Len(sections) :
              /\ CurBlocks[n].parent_id = SectionId(n)
              /\ CurBlocks[n].content = SectionText(n)
        /\ \A m \in 1..Len(Body) :
              (DroppedHeading(m) /\ m - 1 < EndOfBody(Body) /\ SectionBefore(m) > 0)
              => \E p \in CurOfType("paragraph") :
                    /\ p.parent_id = SectionId(SectionBefore(m))
                    /\ \E c \in 1..Len(p.content) : p.content[c] = Body[m]

-----------------------------------------------------------------------------
(* Properties of the plain text of a block, checked under SpecEnv *)

\* the tokens of a text that are not whitespace
NonWs(text) == SelectSeq(text, LAMBDA t : t.k # "ws")

\* the tokens of the block outside the reported spans, in order
Remainder(b) ==
    LET outside == SelectSeq([n \in 1..Len(b.content) |-> n],
                             LAMBDA n : ~StartsSpan(b, n) /\ ~InsideSpan(b, n))
    IN [c \in 1..Len(outside) |-> b.content[outside[c]]]

\* the children of the block's parent with a type of the given set, in order
ChildrenOfType(b, types) ==
    SelectSeq([c \in 1..Len(Node(builder.all_nodes, b.parent_id).children) |->
                  Node(builder.all_nodes,
                       Node(builder.all_nodes, b.parent_id).children[c])],
              LAMBDA nd : nd.type \in types)

\* the spans of the block that are not a math, figure or list environment
OtherSpans(b) == SelectSeq(Spans(b), LAMBDA e : e.env_type = "environment")

\* C26: a span of another kind than math, figure and list gives no node: the
\* block's parent has one equation, figure or list node for each span of
\* these kinds and no more; the paragraphs of the block hold the text
\* outside all spans and nothing else, and a sentence holds only tokens of
\* its paragraph (and the period added at its end)
C26_OtherEnvironmentsAreExcised ==
    Built =>
        \A q \in 1..Len(CurBlocks) :
            LET b == CurBlocks[q]
                paras == ChildrenOfType(b, {"paragraph"})
            IN /\ Len(ChildrenOfType(b, {"equation", "figure", "list"}))
                     = Len(Spans(b)) - Len(OtherSpans(b))
               /\ NonWs(Flatten([c \in 1..Len(paras) |-> paras[c].content]))
                     = NonWs(Remainder(b))
               /\ \A c \in 1..Len(paras) : \A s \in CurOfType("sentence") :
                     s.parent_id = paras[c].id
                     => \A t \in 1..Len(s.content) :
                           \/ s.content[t] = DOT
                           \/ \E u \in 1..Len(paras[c].content) :
                                 paras[c].content[u] = s.content[t]

\* a block with text in a center environment and text outside it
C26_Witness ==
    /\ Built
    /\ \E q \in 1..Len(CurBlocks) :
          /\ \E e \in 1..Len(OtherSpans(CurBlocks[q])) :
                /\ OtherSpans(CurBlocks[q])[e].env_name = <<"center", FALSE>>
                /\ OtherSpans(CurBlocks[q])[e].content # <<>>
          /\ Remainder(CurBlocks[q]) # <<>>
          /\ ChildrenOfType(CurBlocks[q], {"paragraph"}) # <<>>

-----------------------------------------------------------------------------
(* The nesting of the node types, checked under SpecSec *)

\* the type of the parent of a node of the tree at hand
ParentType(nd) == Node(builder.all_nodes, nd.parent_id).type

\* the types a node may have under a parent of the given type
AllowedUnder(parent_type) ==
    CASE parent_type = "document" ->
            {"section", "paragraph", "equation", "figure", "list"}
      [] parent_type = "section" ->
            {"section", "paragraph", "equation", "figure", "list"}
      [] parent_type = "paragraph" -> {"sentence"}
      [] parent_type = "list" -> {"item"}
      [] OTHER -> {}

\* C27: in every built tree a sentence lies under a paragraph, an item under
\* a list, a paragraph, equation, figure, list or section under a section or
\* the root, and sentences, equations, figures and items have no children;
\* stated for the parent of each node and for the children of each node
C27_TypesNest ==
    Built =>
        \A nd \in CurNodes :
            /\ nd.type # "document" =>
                  /\ nd.parent_id # NoId
                  /\ nd.type \in AllowedUnder(ParentType(nd))
            /\ \A c \in 1..Len(nd.children) :
                  Node(builder.all_nodes, nd.children[c]).type \in AllowedUnder(nd.type)
            /\ nd.type \in {"sentence", "equation", "figure", "item"}
                  => nd.children = <<>>

\* a section that holds a paragraph with a sentence and a list with an item
C27_Witness ==
    /\ Built
    /\ \E sec \in CurOfType("section") :
          /\ \E s \in CurOfType("sentence") :
                /\ ParentType(s) = "paragraph"
                /\ Node(builder.all_nodes, s.parent_id).parent_id = sec.id
          /\ \E it \in CurOfType("item") :
                /\ ParentType(it) = "list"
                /\ Node(builder.all_nodes, it.parent_id).parent_id = sec.id

-----------------------------------------------------------------------------
(* The chains of the emitted hierarchy maps, checked under Spec *)

RECURSIVE Climbs(_, _, _, _)
\* following the map h from id through at most n parent ids arrives at top
Climbs(h, id, top, n) ==
    IF id = top THEN TRUE
    ELSE IF n = 0 \/ ~DictHas(h, id) THEN FALSE
         ELSE Climbs(h, DictGet(h, id), top, n - 1)

\* the versions a hierarchy map was emitted for
EmittedVersions == DictKeys(all_hierarchies)

\* the root ids of the versions of the run
RootIds == {RootId(pub_id, versions_data[n].key) : n \in 1..Len(versions_data)}

\* C28: after the run, in the map of every version v the chain of parent ids
\* from any key arrives at the root id of v within as many steps as the map
\* has keys; the root of v is no key of the map (no chain goes on past it),
\* and no root of another version is a parent in the map
C28_ChainsReachTheRoot ==
    Done =>
        \A v \in EmittedVersions :
            /\ ~DictHas(Hier(v), RootId(pub_id, v))
            /\ \A key \in DictKeys(Hier(v)) :
                  /\ Climbs(Hier(v), key, RootId(pub_id, v), Len(Hier(v)))
                  /\ DictGet(Hier(v), key) \notin RootIds \ {RootId(pub_id, v)}

\* a finished run where the map of the second version has a key that is the
\* id of a leaf of the first version, lying under a paragraph of the second
C28_Witness ==
    /\ Done
    /\ EmittedVersions = {Versions[1], Versions[2]}
    /\ \E key \in DictKeys(Hier(Versions[2])) :
          /\ \E n \in NodesOf(Versions[1]) : n.id = key /\ IsLeaf(n)
          /\ \E p \in NodesOf(Versions[2]) :
                p.id = DictGet(Hier(Versions[2]), key) /\ p.type = "paragraph"

-----------------------------------------------------------------------------
(* What a later version leaves alone, checked under Spec *)

\* the entries of the dict d are entries of the dict e, with the same values
KeepsEntries(d, e) ==
    \A key \in DictKeys(d) : DictHas(e, key) /\ DictGet(e, key) = DictGet(d, key)

\* the ids of the nodes built for version v
IdsOf(v) == {n.id : n \in NodesOf(v)}

\* no step of a run changes an entry of elements, the canonical id of a
\* fingerprint, or the hierarchy map emitted for a version
EarlierOutputIsKept ==
    /\ KeepsEntries(all_elements, all_elements')
    /\ KeepsEntries(content_hash_to_id, content_hash_to_id')
    /\ KeepsEntries(all_hierarchies, all_hierarchies')

\* C29: the trees of two versions share no node id, and every step of a run,
\* those that process a later version included, keeps each entry of
\* elements, each fingerprint's canonical id and each emitted hierarchy map
\* as it is
C29_LaterVersionsChangeNothing ==
    /\ [](\A v \in BuiltVersions, w \in BuiltVersions :
             v # w => IdsOf(v) \cap IdsOf(w) = {})
    /\ [][EarlierOutputIsKept]_vars

\* the second version has stored an element of its own and registered a
\* fingerprint of its own, after the map of the first version was emitted
C29_Witness ==
    /\ pc = "hier"
    /\ vi = 1
    /\ DictHas(all_hierarchies, Versions[1])
    /\ Hier(Versions[1]) # <<>>
    /\ \E key \in DictKeys(all_elements) :
          key \in {builder.all_nodes[n].key : n \in 1..Len(builder.all_nodes)}
    /\ \E n \in 1..Len(content_hash_to_id) :
          content_hash_to_id[n].val
              \in {builder.all_nodes[m].key : m \in 1..Len(builder.all_nodes)}
    /\ \E n \in 1..Len(content_hash_to_id) :
          content_hash_to_id[n].val \in IdsOf(Versions[1])

-----------------------------------------------------------------------------
(* The section stack of build_hierarchy, checked under SpecSec *)

\* the section loop of the version at hand is running or has just ended
InSectionLoop == pc \in {"sections", "built"} /\ sections # <<>>

\* the node of the tree at hand at place p of the section stack
StackNode(p) == Node(builder.all_nodes, section_stack[p])

\* C30: before and after every iteration of the section loop the section
\* stack is not empty and has the root at its bottom, the nodes above the
\* root are sections whose levels strictly increase from bottom to top (a
\* chapter has the level of the root, so the root is not compared), and
\* after an iteration the top of the stack is the section just processed
C30_SectionStack ==
    InSectionLoop =>
        /\ Len(section_stack) >= 1
        /\ section_stack[1] = RootId(pub_id, Version)
        /\ \A p \in 2..Len(section_stack) : StackNode(p).type = "section"
        /\ \A p \in 3..Len(section_stack) :
              StackNode(p - 1).level < StackNode(p).level
        /\ i = 0 => Len(section_stack) = 1
        /\ i > 0 =>
              /\ Len(section_stack) > 1
              /\ section_stack[Len(section_stack)] = SectionId(i)
              /\ StackNode(Len(section_stack)).title = sections[i].title
              /\ StackNode(Len(section_stack)).level = sections[i].level

\* three sections were processed and the stack holds two of them: the third
\* took the place of the second
C30_Witness ==
    /\ InSectionLoop
    /\ i = 3
    /\ section_stack = <<RootId(pub_id, Version), SectionId(1), SectionId(3)>>
    /\ Node(builder.all_nodes, SectionId(2)).level >= sections[3].level

====
